---- MODULE Spec2Model ----
(***************************************************************************)
(* Model of daily_time_tracker_bot.py: the per-user Day State, the         *)
(* callback_handler intents that change it, the daily_stats table and the  *)
(* report builders.                                                        *)
(*                                                                         *)
(* Instants (datetime) are integers counted in ticks; a timedelta is a     *)
(* difference of instants, again in ticks.  TicksPerSecond ticks make one  *)
(* second, so int(td.total_seconds()) truncates.  Updates are dispatched   *)
(* one at a time (main builds the Application without concurrent updates), *)
(* so each handler is one step.  Inline keyboards of earlier messages stay *)
(* in the chat, across restarts of the process as well, so every button    *)
(* the bot can build may be pressed in every state.  A message is kept as  *)
(* its kind; the sleep-time message also as the activity it reports as     *)
(* auto-paused, a report also as the durations it prints.  The clock reads *)
(* backwards at most once.                                                 *)
(*                                                                         *)
(* Spec is the buttons of one user.  SpecStore adds /week and /month and a *)
(* table that may hold another user's day, with a clock that runs          *)
(* forwards.  SpecUpdates has the sleep-time handler in the two parts its  *)
(* await divides it into, and the dispatch rule that keeps them together.  *)
(***************************************************************************)
EXTENDS Integers, Sequences, FiniteSets, TLC

\* ---------------------------------------------------------------- bounds

\* Clock readings are 0..MaxTime.
MaxTime == 2
\* Sub-second resolution of an instant.
TicksPerSecond == 2
\* Length of a calendar day, in ticks (scaled down).
TicksPerDay == 2

\* Calendar day of clock reading 0, counted from the first day that has a
\* two-digit text form.
FirstDay == 9

Times == 0..MaxTime

\* ------------------------------------------------------------- constants

\* None, for the optional instants wake_time, sleep_time, current_start.
NoTime == -1
\* None, for current_activity and for "nothing was closed".
NoActivity == "none"

ACTIVITY_NAMES == {"contrib", "soft", "hands", "coding"}

\* The user whose buttons are pressed.
UserId == 1
\* Another user, whose finished days are in the same table.
OtherUser == 2

\* today - timedelta(days=6)
WeekDays == 6

\* ------------------------------------------------------------- variables

VARIABLES
    state,        \* user_state[UserId]
    daily_stats,  \* the rows of table daily_stats
    now,          \* the latest reading of datetime.now()
    skewed,       \* a reading of the clock was less than the one before
    data,         \* the callback data of the latest update, without its code
    reply,        \* the messages the latest handler sent
    clamped,      \* history: the latest handler closed a negative interval
    first_start,  \* history: instant of the first start since the day reset
    only_starts,  \* history: no pause, sleep or continue since first_start
    awaiting      \* the handler suspended at an await between two uses of
                  \* the Day State, if any: its now and the state it found

vars == <<state, daily_stats, now, skewed, data, reply, clamped, first_start,
          only_starts, awaiting>>

\* ------------------------------------------------------------ Day State

ZeroTotals == [k \in ACTIVITY_NAMES |-> 0]

get_user_state ==
    [wake_time        |-> NoTime,
     sleep_time       |-> NoTime,
     current_activity |-> NoActivity,
     current_start    |-> NoTime,
     totals           |-> ZeroTotals]

\* Mutant: the negative interval is not replaced by zero.
UnclampedDelta(start, t) == t - start

\* delta = now - start; if delta.total_seconds() < 0: delta = timedelta(0)
ClampedDelta(start, t) == IF t - start < 0 THEN 0 ELSE t - start

\* Mutant: the activity is cleared and its time is credited to no total.
close_without_credit(st, t) ==
    IF st.current_activity = NoActivity \/ st.current_start = NoTime
    THEN [state |-> st, closed |-> NoActivity]
    ELSE [state |-> [st EXCEPT !.current_activity = NoActivity,
                               !.current_start = NoTime],
          closed |-> st.current_activity]

close_current_activity(st, t) ==
    IF st.current_activity = NoActivity \/ st.current_start = NoTime
    THEN [state |-> st, closed |-> NoActivity]
    ELSE [state |->
            [st EXCEPT
               !.totals[st.current_activity] = @ + ClampedDelta(st.current_start, t),
               !.current_activity = NoActivity,
               !.current_start = NoTime],
          closed |-> st.current_activity]

\* ---------------------------------------------------------------- utils

\* Mutant: seconds rounded to the nearest whole second instead of truncated.
RoundedSeconds(td) == (2 * td + TicksPerSecond) \div (2 * TicksPerSecond)

\* int(td.total_seconds()): whole seconds, truncated towards zero.
IntSeconds(td) ==
    IF td >= 0 THEN td \div TicksPerSecond ELSE -((-td) \div TicksPerSecond)

\* f"{hours}h {minutes}min", as the pair of numbers it prints.
format_timedelta(td) ==
    LET total_seconds == IF IntSeconds(td) < 0 THEN 0 ELSE IntSeconds(td)
    IN  <<total_seconds \div 3600, (total_seconds % 3600) \div 60>>

\* datetime.date(): the calendar day of an instant; the clock's first
\* reading falls on calendar day FirstDay.
DateOf(t) == FirstDay + (t \div TicksPerDay)

\* date.isoformat(): zero-padded digits, most significant first.
isoformat(d) == <<(d \div 10) % 10, d % 10>>

\* ------------------------------------------------------------------- db

\* Mutant: a plain INSERT that leaves the earlier row of the key in place.
save_daily_stats_appended(db, user_id, day_date, alive, totals) ==
    db \cup {[user_id        |-> user_id,
              date           |-> isoformat(day_date),
              alive_seconds  |-> IntSeconds(alive),
              contrib_seconds |-> IntSeconds(totals["contrib"]),
              hands_seconds  |-> IntSeconds(totals["hands"]),
              soft_seconds   |-> IntSeconds(totals["soft"]),
              coding_seconds |-> IntSeconds(totals["coding"])]}

\* INSERT OR REPLACE INTO daily_stats: the row of the same (user_id, date)
\* is replaced.
save_daily_stats_to_db(db, user_id, day_date, alive, totals) ==
    LET row == [user_id        |-> user_id,
                date           |-> isoformat(day_date),
                alive_seconds  |-> IntSeconds(alive),
                contrib_seconds |-> IntSeconds(totals["contrib"]),
                hands_seconds  |-> IntSeconds(totals["hands"]),
                soft_seconds   |-> IntSeconds(totals["soft"]),
                coding_seconds |-> IntSeconds(totals["coding"])]
    IN  {r \in db : ~(r.user_id = user_id /\ r.date = row.date)} \cup {row}

\* Mutant: the two ends of the range are left out (date > ? AND date < ?).
TextBelow(a, b) ==
    \/ a[1] < b[1]
    \/ a[1] = b[1] /\ a[2] < b[2]

\* date <= ? on the TEXT column: strings compare character by character.
TextLeq(a, b) ==
    \/ a[1] < b[1]
    \/ a[1] = b[1] /\ a[2] <= b[2]

\* SUM(column) over the selected rows.
RECURSIVE SumColumn(_, _)
SumColumn(rows, column) ==
    IF rows = {}
    THEN 0
    ELSE LET r == CHOOSE x \in rows : TRUE
         IN  r[column] + SumColumn(rows \ {r}, column)

\* timedelta(seconds=n)
timedelta_seconds(n) == n * TicksPerSecond

\* Mutant: the hands and soft columns are read in each other's place.
get_stats_range_swapped(db, user_id, start_date, end_date) ==
    LET selected == {r \in db : /\ r.user_id = user_id
                                /\ TextLeq(isoformat(start_date), r.date)
                                /\ TextLeq(r.date, isoformat(end_date))}
    IN  [alive      |-> timedelta_seconds(SumColumn(selected, "alive_seconds")),
         contrib    |-> timedelta_seconds(SumColumn(selected, "contrib_seconds")),
         hands      |-> timedelta_seconds(SumColumn(selected, "soft_seconds")),
         soft       |-> timedelta_seconds(SumColumn(selected, "hands_seconds")),
         coding     |-> timedelta_seconds(SumColumn(selected, "coding_seconds")),
         days_count |-> Cardinality(selected)]

\* SELECT COALESCE(SUM(..), 0), .., COUNT(*) FROM daily_stats WHERE
\* user_id = ? AND date >= ? AND date <= ?: an aggregate without GROUP BY
\* yields one row whatever is selected, so the result is never None.
get_stats_range(db, user_id, start_date, end_date) ==
    LET selected == {r \in db : /\ r.user_id = user_id
                                /\ TextLeq(isoformat(start_date), r.date)
                                /\ TextLeq(r.date, isoformat(end_date))}
    IN  [alive      |-> timedelta_seconds(SumColumn(selected, "alive_seconds")),
         contrib    |-> timedelta_seconds(SumColumn(selected, "contrib_seconds")),
         hands      |-> timedelta_seconds(SumColumn(selected, "hands_seconds")),
         soft       |-> timedelta_seconds(SumColumn(selected, "soft_seconds")),
         coding     |-> timedelta_seconds(SumColumn(selected, "coding_seconds")),
         days_count |-> Cardinality(selected)]

\* -------------------------------------------------------------- reports

\* The working copy of totals with the running activity's time on top.
ReportTotals(st, t) ==
    IF st.current_activity # NoActivity /\ st.current_start # NoTime
    THEN [st.totals EXCEPT
            ![st.current_activity] = @ + ClampedDelta(st.current_start, t)]
    ELSE st.totals

\* alive = (sleep if sleep else now) - wake, clamped at zero.
ReportAlive(st, t) ==
    LET end == IF st.sleep_time # NoTime THEN st.sleep_time ELSE t
    IN  ClampedDelta(st.wake_time, end)

\* Mutant: totals = state["totals"], so the running activity's time is
\* added to the Day State itself.
build_daily_report_text_aliased(st, t) ==
    IF st.wake_time = NoTime
    THEN [message |-> [msg |-> "first_mark"], state |-> st]
    ELSE [message |->
            [msg     |-> "report",
             alive   |-> ReportAlive(st, t),
             totals  |-> ReportTotals(st, t),
             lines   |-> [k \in ACTIVITY_NAMES \cup {"alive"} |->
                            IF k = "alive"
                            THEN format_timedelta(ReportAlive(st, t))
                            ELSE format_timedelta(ReportTotals(st, t)[k])],
             running |-> st.current_activity,
             since   |-> st.current_start],
          state |-> [st EXCEPT !.totals = ReportTotals(st, t)]]

\* The message built, the values it prints (alive, totals) and the Day
\* State the call leaves behind (totals = dict(state["totals"]) is a copy).
build_daily_report_text(st, t) ==
    IF st.wake_time = NoTime
    THEN [message |-> [msg |-> "first_mark"], state |-> st]
    ELSE [message |->
            [msg     |-> "report",
             alive   |-> ReportAlive(st, t),
             totals  |-> ReportTotals(st, t),
             lines   |-> [k \in ACTIVITY_NAMES \cup {"alive"} |->
                            IF k = "alive"
                            THEN format_timedelta(ReportAlive(st, t))
                            ELSE format_timedelta(ReportTotals(st, t)[k])],
             running |-> st.current_activity,
             since   |-> st.current_start],
          state |-> st]

\* timedelta / int: the quotient rounded to the nearest tick, ties to even.
timedelta_div(td, n) ==
    LET q == td \div n
        r == td % n
    IN  IF 2 * r > n \/ (2 * r = n /\ q % 2 = 1) THEN q + 1 ELSE q

\* Lines 299-320: the totals and the "Per day (avg)" lines; dividing by a
\* day count of zero raises ZeroDivisionError.
RangeLines(title, stats) ==
    IF stats.days_count = 0
    THEN [msg |-> "ZeroDivisionError", title |-> title]
    ELSE LET kinds == ACTIVITY_NAMES \cup {"alive"}
             avg == [k \in kinds |-> timedelta_div(stats[k], stats.days_count)]
         IN  [msg   |-> "range",
              title |-> title,
              days  |-> stats.days_count,
              total |-> [k \in kinds |-> format_timedelta(stats[k])],
              avg   |-> avg,
              lines |-> [k \in kinds |-> format_timedelta(avg[k])]]

\* Mutant: the day count is not looked at before the averages.
build_range_report_text_unguarded(title, stats) == RangeLines(title, stats)

\* The text of /week and /month, which begins with the title.  (stats is
\* never None, see get_stats_range.)
build_range_report_text(title, stats) ==
    IF stats.days_count = 0
    THEN [msg |-> "no_finished_days", title |-> title]
    ELSE RangeLines(title, stats)

\* /week: the seven days ending today.
week_cmd(db, user_id, t) ==
    LET today == DateOf(t)
        start == today - WeekDays
    IN  <<build_range_report_text(<<"Last 7 days">>,
                                  get_stats_range(db, user_id, start, today))>>

\* /month: from the first to the last day of the month asked for; the
\* title names the month, here by its two days.
month_cmd(db, user_id, first_day, last_day) ==
    <<build_range_report_text(<<"Month", first_day, last_day>>,
                              get_stats_range(db, user_id, first_day, last_day))>>

\* ------------------------------------------------------------- handlers

\* Mutant: the day is reset but the totals of the day before are kept.
woke_up_keeps_totals(st, t) ==
    [state |-> [st EXCEPT !.wake_time = t,
                          !.sleep_time = NoTime,
                          !.current_activity = NoActivity,
                          !.current_start = NoTime],
     reply |-> <<[msg |-> "woke_up"]>>]

\* Mutant: the day is reset but the running activity is left running.
woke_up_keeps_activity(st, t) ==
    [state |-> [st EXCEPT !.wake_time = t,
                          !.sleep_time = NoTime,
                          !.totals = ZeroTotals],
     reply |-> <<[msg |-> "woke_up"]>>]

\* data == "woke_up"
woke_up(st, t) ==
    [state |-> [wake_time        |-> t,
                sleep_time       |-> NoTime,
                current_activity |-> NoActivity,
                current_start    |-> NoTime,
                totals           |-> ZeroTotals],
     reply |-> <<[msg |-> "woke_up"]>>]

\* Mutant: sleep_time is marked before wake_time is looked at.
sleep_time_marks_first(st, db, t) ==
    LET marked == [st EXCEPT !.sleep_time = t]
    IN  IF st.wake_time = NoTime
        THEN [state |-> marked, db |-> db, reply |-> <<[msg |-> "first_mark"]>>]
        ELSE LET closing == close_current_activity(marked, t)
                 st1 == closing.state
                 alive == ClampedDelta(st1.wake_time, st1.sleep_time)
                 saved == save_daily_stats_to_db(db, UserId, DateOf(st1.wake_time),
                                                 alive, st1.totals)
                 report == build_daily_report_text(st1, t)
             IN  [state |-> report.state,
                  db    |-> saved,
                  reply |-> <<[msg |-> "sleep", closed |-> closing.closed],
                              report.message>>]

\* Mutant: the row is written before the running activity is closed.
sleep_time_saves_first(st, db, t) ==
    IF st.wake_time = NoTime
    THEN [state |-> st, db |-> db, reply |-> <<[msg |-> "first_mark"]>>]
    ELSE LET marked == [st EXCEPT !.sleep_time = t]
             alive == ClampedDelta(marked.wake_time, marked.sleep_time)
             saved == save_daily_stats_to_db(db, UserId, DateOf(marked.wake_time),
                                             alive, marked.totals)
             closing == close_current_activity(marked, t)
             report == build_daily_report_text(closing.state, t)
         IN  [state |-> report.state,
              db    |-> saved,
              reply |-> <<[msg |-> "sleep", closed |-> closing.closed],
                          report.message>>]

\* Mutant: the running activity is closed before wake_time is looked at.
sleep_time_closes_first(st, db, t) ==
    LET closing == close_current_activity(st, t)
    IN  IF st.wake_time = NoTime
        THEN [state |-> closing.state, db |-> db,
              reply |-> <<[msg |-> "first_mark"]>>]
        ELSE LET st1 == [closing.state EXCEPT !.sleep_time = t]
                 alive == ClampedDelta(st1.wake_time, st1.sleep_time)
                 saved == save_daily_stats_to_db(db, UserId, DateOf(st1.wake_time),
                                                 alive, st1.totals)
                 report == build_daily_report_text(st1, t)
             IN  [state |-> report.state,
                  db    |-> saved,
                  reply |-> <<[msg |-> "sleep", closed |-> closing.closed],
                              report.message>>]

\* data == "sleep_time"
sleep_time(st, db, t) ==
    IF st.wake_time = NoTime
    THEN [state |-> st, db |-> db, reply |-> <<[msg |-> "first_mark"]>>]
    ELSE LET marked == [st EXCEPT !.sleep_time = t]
             closing == close_current_activity(marked, t)
             st1 == closing.state
             alive == ClampedDelta(st1.wake_time, st1.sleep_time)
             saved == save_daily_stats_to_db(db, UserId, DateOf(st1.wake_time),
                                             alive, st1.totals)
             report == build_daily_report_text(st1, t)
         IN  [state |-> report.state,
              db    |-> saved,
              reply |-> <<[msg |-> "sleep", closed |-> closing.closed],
                          report.message>>]

\* Mutant: the running activity is not closed before the new one starts.
start_act_without_close(st, code, t) ==
    [state |-> [st EXCEPT !.current_activity = code, !.current_start = t],
     reply |-> <<[msg |-> "start"]>>]

start_act(st, code, t) ==
    LET closing == close_current_activity(st, t)
    IN  [state |-> [closing.state EXCEPT !.current_activity = code,
                                         !.current_start = t],
         reply |-> <<[msg |-> "start"]>>]

\* Mutant: whatever is running is paused, whichever kind was asked for.
pause_act_any_kind(st, code, t) ==
    IF st.current_activity = NoActivity
    THEN [state |-> st, reply |-> <<[msg |-> "not_active"]>>]
    ELSE [state |-> close_current_activity(st, t).state,
          reply |-> <<[msg |-> "pause"]>>]

pause_act(st, code, t) ==
    IF st.current_activity # code
    THEN [state |-> st, reply |-> <<[msg |-> "not_active"]>>]
    ELSE [state |-> close_current_activity(st, t).state,
          reply |-> <<[msg |-> "pause"]>>]

\* Mutant: the running activity is closed and credited first, as in start_act.
continue_act_closes_first(st, code, t) ==
    [state |-> [close_current_activity(st, t).state EXCEPT
                   !.current_activity = code, !.current_start = t],
     reply |-> <<[msg |-> "continue"]>>]

\* Mutant: current_start is left as it was.
continue_act_keeps_start(st, code, t) ==
    [state |-> [st EXCEPT !.current_activity = code],
     reply |-> <<[msg |-> "continue"]>>]

continue_act(st, code, t) ==
    [state |-> [st EXCEPT !.current_activity = code, !.current_start = t],
     reply |-> <<[msg |-> "continue"]>>]

\* data == "daily_report"
daily_report(st, t) ==
    LET report == build_daily_report_text(st, t)
    IN  [state |-> report.state, reply |-> <<report.message>>]

\* --------------------------------------------------------------- actions

\* now = datetime.now(): a reading below the one before is a clock anomaly;
\* the clock goes backwards at most once.
ReadClock(t) ==
    /\ t >= now \/ ~skewed
    /\ now' = t
    /\ skewed' = (skewed \/ t < now)

\* close_current_activity would find delta.total_seconds() < 0.
NegativeInterval(st, t) ==
    /\ st.current_activity # NoActivity
    /\ st.current_start # NoTime
    /\ t < st.current_start

\* The history variables are kept while the clock has not gone backwards.
History(t, first, only) ==
    IF ~skewed /\ t >= now
    THEN first_start' = first /\ only_starts' = only
    ELSE first_start' = NoTime /\ only_starts' = FALSE

Init ==
    /\ state = get_user_state
    /\ daily_stats = {}
    /\ now = 0
    /\ skewed = FALSE
    /\ data = "none"
    /\ reply = <<>>
    /\ clamped = FALSE
    /\ first_start = NoTime
    /\ only_starts = TRUE
    /\ awaiting = <<>>

WokeUp(t) ==
    /\ ReadClock(t)
    /\ data' = "woke_up"
    /\ LET handled == woke_up(state, t)
       IN  state' = handled.state /\ reply' = handled.reply
    /\ clamped' = FALSE
    /\ History(t, NoTime, TRUE)
    /\ UNCHANGED <<daily_stats, awaiting>>

SleepTime(t) ==
    /\ ReadClock(t)
    /\ data' = "sleep_time"
    /\ LET handled == sleep_time(state, daily_stats, t)
       IN  /\ state' = handled.state
           /\ daily_stats' = handled.db
           /\ reply' = handled.reply
    /\ clamped' = (state.wake_time # NoTime /\ NegativeInterval(state, t))
    /\ History(t, first_start,
               only_starts /\ (state.wake_time = NoTime \/ first_start = NoTime))
    /\ UNCHANGED awaiting

StartAct(code, t) ==
    /\ ReadClock(t)
    /\ data' = "start"
    /\ LET handled == start_act(state, code, t)
       IN  state' = handled.state /\ reply' = handled.reply
    /\ clamped' = NegativeInterval(state, t)
    /\ History(t, IF first_start = NoTime THEN t ELSE first_start, only_starts)
    /\ UNCHANGED <<daily_stats, awaiting>>

PauseAct(code, t) ==
    /\ ReadClock(t)
    /\ data' = "pause"
    /\ LET handled == pause_act(state, code, t)
       IN  state' = handled.state /\ reply' = handled.reply
    /\ clamped' = (state.current_activity = code /\ NegativeInterval(state, t))
    /\ History(t, first_start,
               only_starts /\ (state.current_activity # code \/ first_start = NoTime))
    /\ UNCHANGED <<daily_stats, awaiting>>

ContinueAct(code, t) ==
    /\ ReadClock(t)
    /\ data' = "continue"
    /\ LET handled == continue_act(state, code, t)
       IN  state' = handled.state /\ reply' = handled.reply
    /\ clamped' = FALSE
    /\ History(t, IF first_start = NoTime THEN t ELSE first_start,
               only_starts /\ first_start = NoTime)
    /\ UNCHANGED <<daily_stats, awaiting>>

DailyReport(t) ==
    /\ ReadClock(t)
    /\ data' = "daily_report"
    /\ LET handled == daily_report(state, t)
       IN  state' = handled.state /\ reply' = handled.reply
    /\ clamped' = FALSE
    /\ History(t, first_start, only_starts)
    /\ UNCHANGED <<daily_stats, awaiting>>

Next ==
    \E t \in Times :
        \/ WokeUp(t)
        \/ SleepTime(t)
        \/ \E code \in ACTIVITY_NAMES : StartAct(code, t)
        \/ \E code \in ACTIVITY_NAMES : PauseAct(code, t)
        \/ \E code \in ACTIVITY_NAMES : ContinueAct(code, t)
        \/ DailyReport(t)

Spec == Init /\ [][Next]_vars

\* ------------------------------------------- the table and its readers

\* The calendar days the clock can show.
Dates == FirstDay..DateOf(MaxTime)

\* A finished day of the other user, stored by an earlier sleep-time.
OtherRows ==
    save_daily_stats_to_db({}, OtherUser, FirstDay, TicksPerSecond,
                           [ZeroTotals EXCEPT !["hands"] = TicksPerSecond])

\* The table outlives the process: it may hold the other user's day.
InitStore ==
    /\ state = get_user_state
    /\ daily_stats \in {{}, OtherRows}
    /\ now = 0
    /\ skewed = FALSE
    /\ data = "none"
    /\ reply = <<>>
    /\ clamped = FALSE
    /\ first_start = NoTime
    /\ only_starts = TRUE
    /\ awaiting = <<>>

WeekCmd(t) ==
    /\ ReadClock(t)
    /\ data' = "week"
    /\ reply' = week_cmd(daily_stats, UserId, t)
    /\ clamped' = FALSE
    /\ History(t, first_start, only_starts)
    /\ UNCHANGED <<state, daily_stats, awaiting>>

\* The month is the user's argument; its days are first_day..last_day.
MonthCmd(first_day, last_day, t) ==
    /\ first_day <= last_day
    /\ ReadClock(t)
    /\ data' = "month"
    /\ reply' = month_cmd(daily_stats, UserId, first_day, last_day)
    /\ clamped' = FALSE
    /\ History(t, first_start, only_starts)
    /\ UNCHANGED <<state, daily_stats, awaiting>>

\* A reading of a clock that runs forwards.
Forward(t) == t >= now

\* The buttons and the two range commands, with a clock that runs forwards.
NextStore ==
    \E t \in Times :
        \/ Forward(t) /\ WokeUp(t)
        \/ Forward(t) /\ SleepTime(t)
        \/ \E code \in ACTIVITY_NAMES : Forward(t) /\ StartAct(code, t)
        \/ \E code \in ACTIVITY_NAMES : Forward(t) /\ PauseAct(code, t)
        \/ \E code \in ACTIVITY_NAMES : Forward(t) /\ ContinueAct(code, t)
        \/ Forward(t) /\ DailyReport(t)
        \/ Forward(t) /\ WeekCmd(t)
        \/ \E first_day, last_day \in Dates :
              Forward(t) /\ MonthCmd(first_day, last_day, t)

SpecStore == InitStore /\ [][NextStore]_vars

\* ------------------------------------------- the handler and its awaits

\* Mutant: Application.builder().concurrent_updates(True): an update is
\* handled while the handler of an earlier one is suspended.
concurrent_updates == TRUE

\* Application.builder().token(BOT_TOKEN).build(): without concurrent
\* updates the next update is processed when the handler of the one before
\* has returned.
sequential_updates == awaiting = <<>>

\* data == "sleep_time", up to the await of the "Sleep time:" message.
sleep_time_mark(st, t) ==
    IF st.wake_time = NoTime
    THEN [state |-> st, reply |-> <<[msg |-> "first_mark"]>>, awaits |-> FALSE]
    ELSE LET marked == [st EXCEPT !.sleep_time = t]
             closing == close_current_activity(marked, t)
         IN  [state  |-> closing.state,
              reply  |-> <<[msg |-> "sleep", closed |-> closing.closed]>>,
              awaits |-> TRUE]

\* data == "sleep_time", after that await: the Day State is read again for
\* the row and the report; t is the handler's own now.
sleep_time_save(st, db, t) ==
    LET wake == st.wake_time
        end == IF st.sleep_time # NoTime THEN st.sleep_time ELSE t
        alive == ClampedDelta(wake, end)
        saved == save_daily_stats_to_db(db, UserId, DateOf(wake), alive, st.totals)
        report == build_daily_report_text(st, t)
    IN  [state |-> report.state, db |-> saved, reply |-> <<report.message>>]

SleepMark(t) ==
    /\ ReadClock(t)
    /\ data' = "sleep_time"
    /\ LET handled == sleep_time_mark(state, t)
       IN  /\ state' = handled.state
           /\ reply' = handled.reply
           /\ awaiting' = IF handled.awaits
                           THEN <<[now |-> t, found |-> state]>>
                           ELSE <<>>
    /\ clamped' = (state.wake_time # NoTime /\ NegativeInterval(state, t))
    /\ History(t, first_start,
               only_starts /\ (state.wake_time = NoTime \/ first_start = NoTime))
    /\ UNCHANGED daily_stats

SleepSave ==
    /\ awaiting # <<>>
    /\ LET handled == sleep_time_save(state, daily_stats, awaiting[1].now)
       IN  /\ state' = handled.state
           /\ daily_stats' = handled.db
           /\ reply' = reply \o handled.reply
    /\ awaiting' = <<>>
    /\ UNCHANGED <<now, skewed, data, clamped, first_start, only_starts>>

\* The buttons, with the sleep-time handler in its two parts and a clock
\* that runs forwards.
\* The next update is dispatched, at a reading of a clock that runs
\* forwards.
Dispatched(t) == sequential_updates /\ Forward(t)

NextUpdates ==
    \/ \E t \in Times :
          \/ Dispatched(t) /\ WokeUp(t)
          \/ Dispatched(t) /\ SleepMark(t)
          \/ \E code \in ACTIVITY_NAMES : Dispatched(t) /\ StartAct(code, t)
          \/ \E code \in ACTIVITY_NAMES : Dispatched(t) /\ PauseAct(code, t)
          \/ \E code \in ACTIVITY_NAMES : Dispatched(t) /\ ContinueAct(code, t)
          \/ Dispatched(t) /\ DailyReport(t)
    \/ SleepSave

SpecUpdates == Init /\ [][NextUpdates]_vars

\* ------------------------------------------------------- claim helpers

SumTotals(tt) == tt["contrib"] + tt["soft"] + tt["hands"] + tt["coding"]

\* Duration of the running activity as of the latest clock reading.
RunningFor(st, t) ==
    IF st.current_activity # NoActivity /\ st.current_start # NoTime
    THEN ClampedDelta(st.current_start, t)
    ELSE 0

\* The rows of one user and one calendar day.
RowsOf(db, user_id, day_date) ==
    {r \in db : r.user_id = user_id /\ r.date = isoformat(day_date)}

\* A row holds the whole seconds of these totals.
RowCarries(r, tt) ==
    /\ r.contrib_seconds = IntSeconds(tt["contrib"])
    /\ r.hands_seconds = IntSeconds(tt["hands"])
    /\ r.soft_seconds = IntSeconds(tt["soft"])
    /\ r.coding_seconds = IntSeconds(tt["coding"])

\* ------------------------------------------------------------------- C1

\* C1: in every reachable state current_activity is None if and only if
\* current_start is None.
C1_ActivityIffStart ==
    (state.current_activity = NoActivity) <=> (state.current_start = NoTime)

C1_Witness ==
    /\ data = "continue"
    /\ state.current_activity # NoActivity
    /\ state.current_start # NoTime

\* ------------------------------------------------------------------- C2

\* The totals plus the running activity's duration equal the time elapsed
\* since the first start fs.
AllTimeCounted(st, t, fs) ==
    SumTotals(st.totals) + RunningFor(st, t) = t - fs

\* C2 as stated: the totals plus the running activity's duration equal the
\* time elapsed since the first start of the day, so every intent after that
\* first start keeps them equal.  (A continue pressed while an activity is
\* running, the subject of C5, is set aside here.)
C2_Original ==
    [][(/\ first_start # NoTime
        /\ first_start' = first_start
        /\ AllTimeCounted(state, now, first_start)
        /\ data' \in {"start", "pause", "continue"}
        /\ ~(data' = "continue" /\ state.current_activity # NoActivity))
       => AllTimeCounted(state', now', first_start')]_vars

\* C2, amended: while the clock has not gone backwards, the totals plus the
\* running activity's duration are at most the time elapsed since the first
\* start of the day, and equal it as long as every activity since then was
\* ended by the start of the next one (no pause, sleep time or continue).
C2_SumWithinElapsed ==
    first_start # NoTime =>
        /\ SumTotals(state.totals) + RunningFor(state, now) <= now - first_start
        /\ only_starts =>
             SumTotals(state.totals) + RunningFor(state, now) = now - first_start

C2_Witness ==
    /\ first_start # NoTime
    /\ ~only_starts
    /\ state.current_activity # NoActivity
    /\ SumTotals(state.totals) > 0
    /\ SumTotals(state.totals) + RunningFor(state, now) < now - first_start

\* ------------------------------------------------------------------- C3

\* Every total but that of kind k is what it was before the step.
OtherTotalsUnchanged(k) ==
    \A j \in ACTIVITY_NAMES \ {k} : state'.totals[j] = state.totals[j]

\* Start of B at t1 = now' while a different activity A runs since t0 <= t1.
C3_SwitchStep ==
    LET A == state.current_activity
        B == state'.current_activity
    IN  (/\ data' = "start"
         /\ A # NoActivity
         /\ A # B
         /\ state.current_start <= now')
        => /\ state'.totals[A] = state.totals[A] + (now' - state.current_start)
           /\ OtherTotalsUnchanged(A)
           /\ state'.current_start = now'

\* Pause of the running activity B at t2 = now', t1 <= t2.
C3_PauseStep ==
    LET B == state.current_activity
    IN  (/\ data' = "pause"
         /\ reply'[1].msg = "pause"
         /\ B # NoActivity
         /\ state.current_start <= now')
        => /\ state'.totals[B] = state.totals[B] + (now' - state.current_start)
           /\ OtherTotalsUnchanged(B)
           /\ state'.current_activity = NoActivity

\* C3: starting B at t1 while a different activity A runs since t0 credits
\* exactly t1 - t0 to totals[A] and changes no other total; the pause of B at
\* t2 that follows credits exactly t2 - t1 to totals[B] and changes no other
\* total.
C3_SwitchCreditsExactly == [][C3_SwitchStep /\ C3_PauseStep]_vars

\* A was started, B was started over it and then paused: both have time, and
\* all the time since the first start is in the totals.
C3_Witness ==
    /\ data = "pause"
    /\ reply[1].msg = "pause"
    /\ first_start # NoTime
    /\ \E A, B \in ACTIVITY_NAMES :
          /\ A # B
          /\ state.totals[A] > 0
          /\ state.totals[B] > 0
          /\ state.totals[A] + state.totals[B] = now - first_start

\* ------------------------------------------------------------------- C4

\* C4: every total is at least zero in every reachable state, and no intent
\* other than woke up makes a total smaller, also when the clock goes
\* backwards.
C4_TotalsNeverDecrease ==
    /\ [](\A k \in ACTIVITY_NAMES : state.totals[k] >= 0)
    /\ [][data' # "woke_up" =>
            \A k \in ACTIVITY_NAMES : state'.totals[k] >= state.totals[k]]_vars

\* An activity with time on it was just closed at an instant before its
\* start.
C4_Witness ==
    /\ clamped
    /\ skewed
    /\ state.current_activity = NoActivity
    /\ SumTotals(state.totals) > 0

\* ------------------------------------------------------------------- C5

\* C5: a continue intent is handled only when no activity is running.
C5_ContinueOnlyWhenPaused ==
    [][data' = "continue" => state.current_activity = NoActivity]_vars

\* ------------------------------------------------------------------- C6

\* C6: a sleep-time intent at now' with wake_time set and activity A running
\* since ts sets sleep_time = now', adds max(0, now' - ts) to totals[A] and to
\* no other total, leaves no activity running, and the row written for the
\* wake date carries the totals with that time in them.
C6_SleepClosesThenSaves ==
    [][LET A == state.current_activity
           ts == state.current_start
       IN  (/\ data' = "sleep_time"
            /\ state.wake_time # NoTime
            /\ A # NoActivity)
           => /\ state'.sleep_time = now'
              /\ state'.wake_time = state.wake_time
              /\ state'.totals[A] =
                    state.totals[A] + (IF now' - ts > 0 THEN now' - ts ELSE 0)
              /\ OtherTotalsUnchanged(A)
              /\ state'.current_activity = NoActivity
              /\ state'.current_start = NoTime
              /\ reply'[1] = [msg |-> "sleep", closed |-> A]
              /\ \E r \in daily_stats' :
                    /\ RowsOf(daily_stats', UserId, DateOf(state.wake_time)) = {r}
                    /\ RowCarries(r, state'.totals)]_vars

\* A sleep time closed an activity that had run for a whole second or more,
\* and the stored row has that second.
C6_Witness ==
    /\ data = "sleep_time"
    /\ reply[1].msg = "sleep"
    /\ reply[1].closed # NoActivity
    /\ \E r \in RowsOf(daily_stats, UserId, DateOf(state.wake_time)) :
          /\ RowCarries(r, state.totals)
          /\ r.contrib_seconds + r.hands_seconds + r.soft_seconds
               + r.coding_seconds >= 1

\* ------------------------------------------------------------------- C7

\* Sleep time at t1 = now' with nothing running and wake_time = t0 <= t1.
C7_Case ==
    /\ data' = "sleep_time"
    /\ state.wake_time # NoTime
    /\ state.current_activity = NoActivity
    /\ state.wake_time <= now'

\* C7 as stated: the persisted record has alive = t1 - t0 and the totals are
\* unchanged.
C7_Original ==
    [][C7_Case =>
         /\ \A r \in RowsOf(daily_stats', UserId, DateOf(state.wake_time)) :
               r.alive_seconds * TicksPerSecond = now' - state.wake_time
         /\ state'.totals = state.totals]_vars

\* C7, amended: the persisted record has alive_seconds = t1 - t0 truncated to
\* whole seconds (the report sent with it prints t1 - t0 itself), and the
\* totals are unchanged.
C7_AliveInWholeSeconds ==
    [][C7_Case =>
         /\ \E r \in daily_stats' :
               /\ RowsOf(daily_stats', UserId, DateOf(state.wake_time)) = {r}
               /\ r.alive_seconds = (now' - state.wake_time) \div TicksPerSecond
               /\ RowCarries(r, state.totals)
         /\ reply'[2].alive = now' - state.wake_time
         /\ state'.totals = state.totals]_vars

\* A sleep time with nothing running, a fraction of a second past whole
\* seconds after the wake time.
C7_Witness ==
    /\ data = "sleep_time"
    /\ reply[1] = [msg |-> "sleep", closed |-> NoActivity]
    /\ state.sleep_time > state.wake_time
    /\ (state.sleep_time - state.wake_time) % TicksPerSecond # 0
    /\ \E r \in RowsOf(daily_stats, UserId, DateOf(state.wake_time)) :
          r.alive_seconds = (state.sleep_time - state.wake_time) \div TicksPerSecond

\* ------------------------------------------------------------------- C8

\* C8: a sleep-time intent when wake_time is None answers "first mark woke
\* up" and changes neither the Day State nor the store.
C8_SleepWithoutWake ==
    [][(data' = "sleep_time" /\ state.wake_time = NoTime)
       => /\ reply' = <<[msg |-> "first_mark"]>>
          /\ state' = state
          /\ daily_stats' = daily_stats]_vars

\* The refused sleep time left a running activity running.
C8_Witness ==
    /\ data = "sleep_time"
    /\ reply = <<[msg |-> "first_mark"]>>
    /\ state.wake_time = NoTime
    /\ state.current_activity # NoActivity
    /\ now > state.current_start

\* ------------------------------------------------------------------- C9

\* C9: a pause intent for kind k when current_activity # k, nothing running
\* included, answers "not active" and leaves the Day State as it was; when
\* current_activity = k it leaves the Day State that close_current_activity
\* leaves.
C9_PauseOnlyTheRunningKind ==
    [][\A k \in ACTIVITY_NAMES :
          (data' = "pause" /\ PauseAct(k, now')) =>
             IF state.current_activity # k
             THEN /\ reply' = <<[msg |-> "not_active"]>>
                  /\ state' = state
             ELSE /\ reply' = <<[msg |-> "pause"]>>
                  /\ state' = close_current_activity(state, now').state
                  /\ state'.current_activity = NoActivity
                  /\ state'.totals[k] =
                        state.totals[k] + ClampedDelta(state.current_start, now')
                  /\ OtherTotalsUnchanged(k)]_vars

\* The pause of a kind that is not the running one was refused, and the
\* running activity runs on from its start.
C9_Witness ==
    /\ data = "pause"
    /\ reply = <<[msg |-> "not_active"]>>
    /\ state.current_activity # NoActivity
    /\ state.current_start < now

\* ------------------------------------------------------------------ C10

\* C10: a daily-report intent leaves wake_time, sleep_time,
\* current_activity, current_start, every total and the store as they were,
\* and what it reports is determined by that Day State and now: alive is
\* (sleep_time or now) - wake_time and each activity's value is its total,
\* plus the running activity's time, both clamped at zero, so a second call
\* with the same Day State and now reports the same.
C10_ReportIsPureRead ==
    [][data' = "daily_report" =>
         /\ state' = state
         /\ daily_stats' = daily_stats
         /\ IF state'.wake_time = NoTime
            THEN reply' = <<[msg |-> "first_mark"]>>
            ELSE /\ reply'[1].msg = "report"
                 /\ reply'[1].alive = ReportAlive(state', now')
                 /\ \A k \in ACTIVITY_NAMES :
                       reply'[1].totals[k] =
                          state'.totals[k] +
                            (IF k = state'.current_activity
                             THEN RunningFor(state', now') ELSE 0)]_vars

\* A report was built while an activity had been running for some time.
C10_Witness ==
    /\ data = "daily_report"
    /\ reply[1].msg = "report"
    /\ state.current_activity # NoActivity
    /\ reply[1].totals[state.current_activity]
          > state.totals[state.current_activity]

\* ------------------------------------------------------------------ C11

\* C11: a woke-up intent at now succeeds from every state: afterwards
\* wake_time is now, sleep_time is None, every total is zero and no activity
\* is running; the time of an activity that was running is credited to no
\* total, and the store is not written.
C11_WokeUpResetsDay ==
    [][data' = "woke_up" =>
         /\ reply' = <<[msg |-> "woke_up"]>>
         /\ state'.wake_time = now'
         /\ state'.sleep_time = NoTime
         /\ \A k \in ACTIVITY_NAMES : state'.totals[k] = 0
         /\ state'.current_activity = NoActivity
         /\ state'.current_start = NoTime
         /\ daily_stats' = daily_stats]_vars

\* A second day was begun after a first one had been stored.
C11_Witness ==
    /\ data = "woke_up"
    /\ state.wake_time = now
    /\ now > 0
    /\ daily_stats # {}

\* ------------------------------------------------------------------ C12

\* What a woke-up at t discards for kind k: the total and, when k is the
\* running activity, the time it has been running.
Discarded(st, k, t) ==
    st.totals[k] + (IF k = st.current_activity THEN RunningFor(st, t) ELSE 0)

\* C12: whenever a woke-up intent discards the totals of a day that was
\* closed via sleep-time (sleep_time is not None at the woke-up), the stored
\* record for that day's wake date holds, in whole seconds, the per-activity
\* totals being discarded, the time of a running activity included.
C12_PersistedBeforeDiscard ==
    [][(data' = "woke_up" /\ state.sleep_time # NoTime) =>
         \E r \in RowsOf(daily_stats, UserId, DateOf(state.wake_time)) :
            RowCarries(r, [k \in ACTIVITY_NAMES |-> Discarded(state, k, now')])]_vars

\* ------------------------------------------------------------------ C13

\* PRIMARY KEY (user_id, date)
OneRowPerKey(db) ==
    \A r1, r2 \in db :
        (r1.user_id = r2.user_id /\ r1.date = r2.date) => r1 = r2

\* C13: the table is changed only by a sleep-time intent that finds
\* wake_time set; it then holds, under the key (user, date of wake_time),
\* one row with the alive time and the totals of that sleep-time in place
\* of any earlier row of the key, and every row of another key as before.
\* Woke-up, start, pause, continue, report, week and month leave the table
\* as it was.  So the row of a key is that of the latest sleep-time for it.
C13_OnlySleepWritesItsKey ==
    [][IF data' = "sleep_time" /\ state.wake_time # NoTime
       THEN /\ \A r \in daily_stats \cup daily_stats' :
                  (r.user_id # UserId \/ r.date # isoformat(DateOf(state.wake_time)))
                     => (r \in daily_stats <=> r \in daily_stats')
            /\ \E r \in daily_stats' :
                  /\ RowsOf(daily_stats', UserId, DateOf(state.wake_time)) = {r}
                  /\ r.alive_seconds =
                        IntSeconds(ClampedDelta(state.wake_time, now'))
                  /\ RowCarries(r, state'.totals)
            /\ OneRowPerKey(daily_stats')
       ELSE daily_stats' = daily_stats]_vars

\* A month report was sent while the table held two finished days of the
\* user, one of them with tracked time, and the other user's day.
C13_Witness ==
    /\ data = "month"
    /\ Cardinality(daily_stats) = 3
    /\ \E r \in daily_stats :
          r.user_id = UserId /\ r.alive_seconds > 0 /\ r.contrib_seconds > 0

\* ------------------------------------------------------------------ C14

Users == {UserId, OtherUser}

\* The value of one column in the row of one user and day, zero without a row.
DayValue(db, user_id, d, column) ==
    IF RowsOf(db, user_id, d) = {}
    THEN 0
    ELSE (CHOOSE r \in RowsOf(db, user_id, d) : TRUE)[column]

\* The sum of a column over the days d .. e of one user, day by day.
RECURSIVE DaySum(_, _, _, _, _)
DaySum(db, user_id, d, e, column) ==
    IF d > e
    THEN 0
    ELSE DayValue(db, user_id, d, column) + DaySum(db, user_id, d + 1, e, column)

\* C14: for every user and every pair of days, get_stats_range returns for
\* each of the five durations the sum over exactly the stored rows of that
\* user whose day d has start <= d <= end (both ends included, rows of other
\* users left out) and their number; when no row matches, as when
\* end < start, every sum and the count are zero.
C14_RangeSumsExactlyTheDays ==
    \A u \in Users : \A start_date, end_date \in Dates :
        LET stats == get_stats_range(daily_stats, u, start_date, end_date)
            days == {d \in start_date..end_date : RowsOf(daily_stats, u, d) # {}}
            of(column) ==
                timedelta_seconds(DaySum(daily_stats, u, start_date, end_date, column))
        IN  /\ stats.days_count = Cardinality(days)
            /\ stats.alive = of("alive_seconds")
            /\ stats.contrib = of("contrib_seconds")
            /\ stats.hands = of("hands_seconds")
            /\ stats.soft = of("soft_seconds")
            /\ stats.coding = of("coding_seconds")
            /\ days = {} =>
                  stats = [alive |-> 0, contrib |-> 0, hands |-> 0, soft |-> 0,
                           coding |-> 0, days_count |-> 0]

\* A month report counted one of the user's two stored days, the one the
\* other user has a row for as well, and left the other out.
C14_Witness ==
    /\ data = "month"
    /\ reply[1].msg = "range"
    /\ reply[1].days = 1
    /\ reply[1].avg["alive"] > 0
    /\ Cardinality(daily_stats) = 3

\* ------------------------------------------------------------------ C15

\* The rows of one user whose day lies in start_date .. end_date.
RowsWithin(db, user_id, start_date, end_date) ==
    {r \in db : /\ r.user_id = user_id
                /\ \E d \in start_date..end_date : r.date = isoformat(d)}

\* C15: after a sleep-time has stored the row of (user, d), aggregating
\* that user over a range that contains d and no other stored day of the
\* user returns a count of 1 and the row's alive and four activity
\* durations unchanged.
C15_StoredDayReadBack ==
    [][(data' = "sleep_time" /\ state.wake_time # NoTime) =>
         \A start_date, end_date \in Dates :
            \A r \in RowsOf(daily_stats', UserId, DateOf(state.wake_time)) :
               RowsWithin(daily_stats', UserId, start_date, end_date) = {r} =>
                  get_stats_range(daily_stats', UserId, start_date, end_date) =
                     [alive      |-> timedelta_seconds(r.alive_seconds),
                      contrib    |-> timedelta_seconds(r.contrib_seconds),
                      hands      |-> timedelta_seconds(r.hands_seconds),
                      soft       |-> timedelta_seconds(r.soft_seconds),
                      coding     |-> timedelta_seconds(r.coding_seconds),
                      days_count |-> 1]]_vars

\* A sleep-time has stored a day with time on Abuse Soft and none on Abuse
\* Hands, on the day the other user has a row for too.
C15_Witness ==
    /\ data = "sleep_time"
    /\ OtherRows \subseteq daily_stats
    /\ \E r \in RowsOf(daily_stats, UserId, DateOf(state.wake_time)) :
          /\ r.hands_seconds = 0
          /\ r.soft_seconds > 0
          /\ r.alive_seconds > 0
          /\ RowsWithin(daily_stats, UserId, FirstDay, FirstDay) = {r}

\* ------------------------------------------------------------------ C16

\* The text built for the range start_date .. end_date of the user: the
\* "no finished days" message when the range holds no stored day, else the
\* day count, which is at least one, and for each duration an average that
\* is its sum divided by that count, to the nearest tick.
RangeTextOk(db, start_date, end_date, text) ==
    LET stats == get_stats_range(db, UserId, start_date, end_date)
    IN  IF stats.days_count = 0
        THEN text.msg = "no_finished_days"
        ELSE /\ text.msg = "range"
             /\ text.days = stats.days_count
             /\ text.days >= 1
             /\ \A k \in ACTIVITY_NAMES \cup {"alive"} :
                   /\ 2 * (text.avg[k] * text.days - stats[k]) <= text.days
                   /\ 2 * (stats[k] - text.avg[k] * text.days) <= text.days

\* C16: build_range_report_text never divides by a day count of zero: for
\* the aggregate of every /week and /month, a count of zero gives the "No
\* finished days in this period." message with no average computed, and
\* averages are sum / days_count only when days_count >= 1.
C16_NoAverageOverZeroDays ==
    [][/\ data' = "week" =>
            RangeTextOk(daily_stats, DateOf(now') - WeekDays, DateOf(now'),
                        reply'[1])
       /\ data' = "month" =>
            RangeTextOk(daily_stats, reply'[1].title[2], reply'[1].title[3],
                        reply'[1])]_vars

\* A month without a stored day of the user was asked for while the table
\* held days of both users.
C16_Witness ==
    /\ data = "month"
    /\ reply[1].msg = "no_finished_days"
    /\ OtherRows \subseteq daily_stats
    /\ \E r \in daily_stats : r.user_id = UserId

\* ------------------------------------------------------------------ C17

C18_ContinueOverwritesRunning ==
    [][\A k \in ACTIVITY_NAMES :
          (data' = "continue" /\ ContinueAct(k, now')) =>
             /\ state'.current_activity = k
             /\ state'.current_start = now'
             /\ state'.totals = state.totals
             /\ state'.wake_time = state.wake_time
             /\ state'.sleep_time = state.sleep_time
             /\ reply' = <<[msg |-> "continue"]>>]_vars

\* A continue was handled some time after the first start of the day, and
\* no total holds any of the time since.
C18_Witness ==
    /\ data = "continue"
    /\ state.current_start = now
    /\ first_start # NoTime
    /\ first_start < now
    /\ SumTotals(state.totals) = 0

\* ------------------------------------------------------------------ C19

\* The whole seconds a row holds for the four activities together.
RowWork(r) ==
    r.contrib_seconds + r.soft_seconds + r.hands_seconds + r.coding_seconds

\* C19: with a clock that never reads less than before, whenever wake_time
\* is set the totals and the time of the running activity together are at
\* most now - wake_time; so every row a sleep-time wrote has the seconds of
\* the four activities together at most its alive_seconds, and none of the
\* five negative.
C19_WorkWithinAlive ==
    /\ state.wake_time # NoTime =>
          SumTotals(state.totals) + RunningFor(state, now) <= now - state.wake_time
    /\ \A r \in daily_stats :
          r.user_id = UserId =>
             /\ RowWork(r) <= r.alive_seconds
             /\ r.alive_seconds >= 0
             /\ r.contrib_seconds >= 0
             /\ r.soft_seconds >= 0
             /\ r.hands_seconds >= 0
             /\ r.coding_seconds >= 0

\* A day with alive time was stored, and the totals, of more than one
\* kind, fill the time since wake_time.
C19_Witness ==
    /\ data = "sleep_time"
    /\ state.wake_time # NoTime
    /\ state.wake_time < now
    /\ SumTotals(state.totals) = now - state.wake_time
    /\ \E k \in ACTIVITY_NAMES :
          state.totals[k] > 0 /\ state.totals[k] < SumTotals(state.totals)
    /\ \E r \in RowsOf(daily_stats, UserId, DateOf(state.wake_time)) :
          r.alive_seconds > 0 /\ RowWork(r) <= r.alive_seconds

\* ------------------------------------------------------------------ C20

\* C20: in every reachable state sleep_time is set only if wake_time is,
\* and once a woke-up has set wake_time no later intent makes it None again.
C20_WakeStaysSet ==
    [][/\ state.sleep_time # NoTime => state.wake_time # NoTime
       /\ state'.sleep_time # NoTime => state'.wake_time # NoTime
       /\ state.wake_time # NoTime => state'.wake_time # NoTime]_vars

\* An activity was started after the sleep-time of a day, and both marks
\* of the day are still set.
C20_Witness ==
    /\ data = "start"
    /\ state.wake_time # NoTime
    /\ state.sleep_time # NoTime
    /\ now > state.sleep_time

====
